---- MODULE Spec2Model ----
(***************************************************************************)
(* Identifier resolution and entity alignment of TERA:                     *)
(*   tera.DataIntegration.Alignment (lazy load, _mapping, convert) and the *)
(*   loads of EndpointMapping, WikidataMapping, LogMapMapping and          *)
(*   StringMatchingMapping,                                                *)
(*   tera.DataAccess.API.convert_id (hub routing) and                      *)
(*   tera.utils.do_recursively_in_class / strip_namespace.                 *)
(*                                                                         *)
(* Python strings are sequences of one-character strings, Python values    *)
(* are records tagged with their type, and a dict is the sequence of its   *)
(* items in insertion order.  A call's result is a record holding either   *)
(* the returned value or the name of the exception that left the call.     *)
(***************************************************************************)
EXTENDS Integers, Sequences, FiniteSets, TLC

\* ------------------------------------------------------------------ bounds
\* Longest list handed to convert / convert_id.
MaxBatch == 2
\* Most rows a data source answers an Alignment's load with.
MaxRows == 2
\* Depth of nested convert_id calls at which the interpreter gives up with
\* RecursionError (sys.getrecursionlimit(), scaled down).
RecursionLimit == 3
\* Most triples in the graph that construct_subgraph walks.
MaxEdges == 3
\* Most runs of load on one Alignment instance that a behaviour follows.
MaxLoads == 2
\* Longest identifier handed to strip_namespace.
MaxStripLen == 4

\* ------------------------------------------------------------ Python values
NoMapping == <<"n","o"," ","m","a","p","p","i","n","g">>

PyStr(s)    == [ty |-> "str",      s |-> s,    items |-> <<>>, vals |-> <<>>]
URIRef(s)   == [ty |-> "URIRef",   s |-> s,    items |-> <<>>, vals |-> <<>>]
PyNone      == [ty |-> "NoneType", s |-> <<>>, items |-> <<>>, vals |-> <<>>]
PyColl(ty, items)  == [ty |-> ty,  s |-> <<>>, items |-> items, vals |-> <<>>]
PyDict(keys, vals) == [ty |-> "dict", s |-> <<>>, items |-> keys, vals |-> vals]

CollectionTypes == {"list", "set", "tuple"}

Return(v)     == [exc |-> "none", val |-> v,      info |-> {}]
Raise(e)      == [exc |-> e,      val |-> PyNone, info |-> {}]
RaiseWith(e, i) == [exc |-> e,    val |-> PyNone, info |-> i]

RECURSIVE JoinRepr(_, _)
ElemRepr(v) ==
    IF v.ty = "URIRef"
    THEN <<"rdflib.term.URIRef(", "'">> \o v.s \o <<"'", ")">>
    ELSE <<"'">> \o v.s \o <<"'">>
JoinRepr(items, i) ==
    IF i > Len(items) THEN <<>>
    ELSE (IF i > 1 THEN <<",", " ">> ELSE <<>>) \o ElemRepr(items[i])
         \o JoinRepr(items, i + 1)

\* str(x): the text of a str or URIRef, the repr of a collection.
str(v) ==
    CASE v.ty \in {"str", "URIRef"} -> v.s
      [] v.ty = "list"  -> <<"[">> \o JoinRepr(v.items, 1) \o <<"]">>
      [] v.ty = "tuple" -> <<"(">> \o JoinRepr(v.items, 1)
                           \o (IF Len(v.items) = 1 THEN <<",">> ELSE <<>>) \o <<")">>
      [] v.ty = "set"   -> IF v.items = <<>> THEN <<"s","e","t","(",")">>
                           ELSE <<"{">> \o JoinRepr(v.items, 1) \o <<"}">>
      [] OTHER          -> <<"N","o","n","e">>

\* ------------------------------------------------------------ tera.utils
\* string.split(v)[-1]: what follows the last occurrence of v found by the
\* left-to-right, non-overlapping scan of str.split.
RECURSIVE LastFragment(_, _, _, _)
LastFragment(s, v, i, start) ==
    IF i + Len(v) - 1 > Len(s)
    THEN SubSeq(s, start, Len(s))
    ELSE IF SubSeq(s, i, i + Len(v) - 1) = v
         THEN LastFragment(s, v, i + Len(v), i + Len(v))
         ELSE LastFragment(s, v, i + 1, start)

RECURSIVE StripLoop(_, _, _)
StripLoop(string, var, tmp1) ==
    IF var = <<>> THEN tmp1
    ELSE LET tmp2 == LastFragment(string, Head(var), 1, 1)
         IN StripLoop(string, Tail(var),
                      IF Len(tmp2) < Len(tmp1) THEN tmp2 ELSE tmp1)

\* Mutant: only the first separator is tried.
strip_first_only(string, var) == LastFragment(string, Head(var), 1, 1)

strip_namespace(string, var) == StripLoop(string, var, string)

Separators == << <<"/">>, <<"#">>, <<"C","I","D">> >>

\* ------------------------------------------------------------ dict helpers
RECURSIVE IndexOfKey(_, _, _)
IndexOfKey(d, k, i) ==
    IF i > Len(d) THEN 0
    ELSE IF d[i][1] = k THEN i ELSE IndexOfKey(d, k, i + 1)

HasKey(d, k) == IndexOfKey(d, k, 1) # 0
Get(d, k)    == d[IndexOfKey(d, k, 1)][2]
\* d[k] = v: a present key keeps its place, a new key goes last.
Put(d, k, v) ==
    LET i == IndexOfKey(d, k, 1)
    IN IF i = 0 THEN Append(d, <<k, v>>) ELSE [d EXCEPT ![i] = <<k, v>>]

\* None in a position of a result tuple; no text of the model equals it.
NoneValue == <<"None">>

\* str(f) for a position of a result tuple.
StrOfBinding(x) == IF x = NoneValue THEN <<"N","o","n","e">> ELSE x

\* {str(f):str(t) for f,t in res}
RECURSIVE DictOfRows(_, _)
DictOfRows(rows, d) ==
    IF rows = <<>> THEN d
    ELSE DictOfRows(Tail(rows), Put(d, StrOfBinding(Head(rows)[1]),
                                       StrOfBinding(Head(rows)[2])))

\* ------------------------------------------------- tera.DataIntegration
\* collections.defaultdict(default_factory, content) raises TypeError unless
\* default_factory is callable or None; no value of this model is callable.
defaultdict(default_factory, content) ==
    [exc |-> IF default_factory.ty = "NoneType" THEN "none" ELSE "TypeError",
     d   |-> content]

\* Alignment._to_defaultdict: self.mappings is reassigned only if the
\* constructor returns.
_to_defaultdict(m) ==
    LET r == defaultdict(PyStr(NoMapping), m.d)
    IN [exc |-> r.exc,
        m   |-> IF r.exc = "none" THEN [m EXCEPT !.d = r.d] ELSE m]

\* An Alignment instance is m = [has, d, loads]: whether it has a mappings
\* attribute, the attribute, and how many times its load has been entered.
\* Its strategy is st = [kind, ok, threshold]: the subclass, whether its data
\* source answers (the endpoint replies, the alignment file parses), and
\* self.threshold.  A number v of the program is the integer 1000 * v.

\* The answer of an endpoint is the sequence of its bindings, each a pair
\* <<from, to>> in which NoneValue stands for a variable the row leaves
\* unbound (the key is absent from the row).
\* out[v] = [r[v]['value'] for r in bindings], and on KeyError
\* out[v] = [None] * len(bindings): one row without v empties the column.
Column(bindings, v) ==
    IF \E j \in 1..Len(bindings) : bindings[j][v] = NoneValue
    THEN [j \in 1..Len(bindings) |-> NoneValue]
    ELSE [j \in 1..Len(bindings) |-> bindings[j][v]]

\* zip(*[out[k] for k in out]) for var of two variables
ZipColumns(bindings) ==
    [j \in 1..Len(bindings) |->
        <<Column(bindings, 1)[j], Column(bindings, 2)[j]>>]

\* Mutant: the error of the request leaves query_endpoint.
query_endpoint_raising(st, rows) ==
    IF st.ok THEN [exc |-> "none", val |-> ZipColumns(rows)]
    ELSE [exc |-> "EndPointNotFound", val |-> <<>>]

\* utils.query_endpoint(endpoint, q, var) for var of two variables: the
\* tuples of the answer, in the order the caller will iterate the returned
\* set; when the request, the parsing of its answer or the walk through it
\* raises, the except clause returns set().
query_endpoint(st, rows) ==
    [exc |-> "none", val |-> IF st.ok THEN ZipColumns(rows) ELSE <<>>]

\* The statements of EndpointMapping.load and WikidataMapping.load after
\* res = ut.query_endpoint(...): an exception of the call leaves load,
\* otherwise its rows become self.mappings and _to_defaultdict runs.
LoadRows(m, res) ==
    IF res.exc # "none" THEN [exc |-> res.exc, m |-> m]
    ELSE _to_defaultdict([m EXCEPT !.has = TRUE, !.d = DictOfRows(res.val, <<>>)])

\* EndpointMapping.load
EndpointMapping_load(m, st, rows) == LoadRows(m, query_endpoint(st, rows))

\* WikidataMapping.load: the same statements, against the Wikidata endpoint.
WikidataMapping_load(m, st, rows) == LoadRows(m, query_endpoint(st, rows))

\* Mutant: the threshold itself is not accepted.
AcceptedAbove(score, threshold) == score > threshold

\* Mutant: the comparison is turned round.
AcceptedBelow(score, threshold) == score <= threshold

\* if score >= self.threshold
Accepted(score, threshold) == score >= threshold

\* The loop of LogMapMapping.load over the cells <<e1, e2, score>> of the
\* alignment file, in the order the graph yields them.
RECURSIVE LogMapCells(_, _, _)
LogMapCells(cells, threshold, out) ==
    IF cells = <<>> THEN out
    ELSE LogMapCells(Tail(cells), threshold,
                     IF Accepted(Head(cells)[3], threshold)
                     THEN Put(out, Head(cells)[1], Head(cells)[2])
                     ELSE out)

\* LogMapMapping.load: g.parse raises on a file that is missing or does not
\* parse, before self.mappings is assigned.
LogMapMapping_load(m, st, rows) ==
    IF ~st.ok THEN [exc |-> "FileNotFoundError", m |-> m]
    ELSE _to_defaultdict([m EXCEPT !.has = TRUE,
                                   !.d = LogMapCells(rows, st.threshold, <<>>)])

\* One pass of the inner loop of StringMatchingMapping.load is a visit
\* <<k1, k2, raised, score>>: the pair of entities, whether
\* process.extractOne (or the unpacking of its result) raised TypeError,
\* and the score it gave otherwise.
\* try: _, score = process.extractOne(...) / except TypeError: score = 0
ScoreOf(visit) == IF visit[3] THEN 0 ELSE visit[4]

\* tmp[k1,k2] = max(tmp[k1,k2], score) on tmp = defaultdict(float)
PutMax(tmp, key, score) ==
    LET old == IF HasKey(tmp, key) THEN Get(tmp, key) ELSE 0
    IN Put(tmp, key, IF old >= score THEN old ELSE score)

\* The nested loops of StringMatchingMapping.load, visit by visit.
RECURSIVE MatchPairs(_, _, _)
MatchPairs(visits, threshold, tmp) ==
    IF visits = <<>> THEN tmp
    ELSE MatchPairs(Tail(visits), threshold,
                    IF Accepted(ScoreOf(Head(visits)), threshold)
                    THEN PutMax(tmp, <<Head(visits)[1], Head(visits)[2]>>,
                                ScoreOf(Head(visits)))
                    ELSE tmp)

\* {k1:k2 for k1,k2 in tmp}: the keys of tmp, in insertion order.
RECURSIVE DictOfPairs(_, _)
DictOfPairs(tmp, d) ==
    IF tmp = <<>> THEN d
    ELSE DictOfPairs(Tail(tmp), Put(d, Head(tmp)[1][1], Head(tmp)[1][2]))

\* StringMatchingMapping.load
StringMatchingMapping_load(m, st, rows) ==
    _to_defaultdict([m EXCEPT !.has = TRUE,
                              !.d = DictOfPairs(MatchPairs(rows, st.threshold,
                                                           <<>>), <<>>)])

\* A graph is the sequence of its triples <<subject, object, literal>> in
\* the order the graph yields them, literal telling whether the object is
\* an rdflib Literal.
\* Mutant: every object of the entity is taken for a label.
ObjectsOf(graph, e) ==
    LET AnyOfE(t) == t[1] = e
        sel == SelectSeq(graph, AnyOfE)
    IN [j \in 1..Len(sel) |-> sel[j][2]]

\* [str(o) for o in graph.objects(subject=e) if isinstance(o,Literal)]
LiteralsOf(graph, e) ==
    LET OfE(t) == t[1] = e /\ t[3]
        sel == SelectSeq(graph, OfE)
    IN [j \in 1..Len(sel) |-> sel[j][2]]

\* The loop of utils.graph_to_dict over graph.subjects(), one subject per
\* triple.
RECURSIVE GraphDictLoop(_, _, _)
GraphDictLoop(graph, i, d) ==
    IF i > Len(graph) THEN d
    ELSE GraphDictLoop(graph, i + 1,
                       Put(d, graph[i][1], LiteralsOf(graph, graph[i][1])))

\* utils.graph_to_dict(graph)
graph_to_dict(graph) == GraphDictLoop(graph, 1, <<>>)

\* _, score = process.extractOne(query, choices) under try / except
\* TypeError, as <<raised, score>>.  The library is either one that raises
\* TypeError for a query that is a list of labels, or one that scores the
\* query against each choice: then no choice gives None, whose unpacking
\* raises TypeError, a query without label scores 0 and any other 100.
extractOne(scorer, query, choices) ==
    IF scorer = "raises" \/ choices = <<>> THEN <<TRUE, 0>>
    ELSE IF query = <<>> THEN <<FALSE, 0>>
    ELSE <<FALSE, 100000>>

\* for k1 in dict1: for k2 in dict2: the visits of the loops over two label
\* dicts, each with the outcome of process.extractOne(dict1[k1], dict2[k2]).
DictVisits(dict1, dict2, scorer) ==
    [n \in 1..(Len(dict1) * Len(dict2)) |->
        LET e1 == dict1[((n - 1) \div Len(dict2)) + 1]
            e2 == dict2[((n - 1) % Len(dict2)) + 1]
        IN <<e1[1], e2[1], extractOne(scorer, e1[2], e2[2])[1],
             extractOne(scorer, e1[2], e2[2])[2]>>]

\* StringGraphMapping.load on rows = [g1, g2, scorer]: the graphs given to
\* the constructor and the scoring library.
StringGraphMapping_load(m, st, rows) ==
    _to_defaultdict(
        [m EXCEPT !.has = TRUE,
                  !.d = DictOfPairs(
                           MatchPairs(DictVisits(graph_to_dict(rows.g1),
                                                 graph_to_dict(rows.g2),
                                                 rows.scorer),
                                      st.threshold, <<>>), <<>>)])

\* self.load(): the load of the instance's class.
load(m, st, rows) ==
    CASE st.kind = "EndpointMapping" ->
            EndpointMapping_load([m EXCEPT !.loads = @ + 1], st, rows)
      [] st.kind = "WikidataMapping" ->
            WikidataMapping_load([m EXCEPT !.loads = @ + 1], st, rows)
      [] st.kind = "LogMapMapping" ->
            LogMapMapping_load([m EXCEPT !.loads = @ + 1], st, rows)
      [] st.kind = "StringMatchingMapping" ->
            StringMatchingMapping_load([m EXCEPT !.loads = @ + 1], st, rows)
      [] st.kind = "StringGraphMapping" ->
            StringGraphMapping_load([m EXCEPT !.loads = @ + 1], st, rows)

\* The loop of _mapping that fills the reverse index.
RECURSIVE ReverseFill(_, _)
ReverseFill(items, tmp) ==
    IF items = <<>> THEN tmp
    ELSE LET k == Head(items)[1]
             i == Head(items)[2]
         IN ReverseFill(Tail(items),
                        IF i # NoMapping THEN Put(tmp, i, k) ELSE tmp)

\* Mutant: a forward miss leaves the looked-up key in self.mappings, as
\* indexing a defaultdict does.
_mapping_inserting(m, st, rows, x, reverse) ==
    LET l == IF ~m.has THEN load(m, st, rows) ELSE [exc |-> "none", m |-> m]
    IN IF l.exc # "none" THEN [out |-> Raise(l.exc), m |-> l.m]
       ELSE IF reverse THEN [out |-> Raise("TypeError"), m |-> l.m]
       ELSE IF HasKey(l.m.d, str(x))
       THEN [out |-> Return(PyStr(Get(l.m.d, str(x)))), m |-> l.m]
       ELSE [out |-> Return(PyStr(NoMapping)),
             m   |-> [l.m EXCEPT !.d = Put(@, str(x), NoMapping)]]

\* The statements of _mapping after `if not hasattr(self, 'mappings'):
\* self.load()`, l being what that statement left: an exception of load
\* leaves _mapping, otherwise the table is looked up in the direction asked.
LookupLoaded(l, x, reverse) ==
    IF l.exc # "none" THEN [out |-> Raise(l.exc), m |-> l.m]
    ELSE LET tmp == IF reverse THEN defaultdict(PyStr(NoMapping), <<>>)
                    ELSE [exc |-> "none", d |-> l.m.d]
         IN IF tmp.exc # "none" THEN [out |-> Raise(tmp.exc), m |-> l.m]
            ELSE LET tbl == IF reverse THEN ReverseFill(l.m.d, tmp.d)
                            ELSE tmp.d
                     key == str(x)
                 IN [out |-> IF HasKey(tbl, key)
                             THEN Return(PyStr(Get(tbl, key)))
                             ELSE Raise("KeyError"),
                     m   |-> l.m]

\* Alignment._mapping(x, reverse) on the instance m of strategy st whose data
\* source holds rows: the call's outcome and the instance afterwards.
_mapping(m, st, rows, x, reverse) ==
    LookupLoaded(IF ~m.has THEN load(m, st, rows) ELSE [exc |-> "none", m |-> m],
                 x, reverse)

\* Alignment.convert(id_, reverse=True, strip=False).
convert(m, st, rows, id_, reverse, strip) ==
    _mapping(m, st, rows,
             IF strip THEN PyStr(strip_namespace(str(id_), Separators)) ELSE id_,
             reverse)

\* The default of convert's reverse parameter.
ConvertReverseDefault == TRUE

\* --------------------------------------------------------------- inputs
Schemes == {"hub", "A", "B"}

Keys   == {<<"a">>, <<"b">>}
Values == {<<"x">>, <<"y">>}

RECURSIVE SeqsUpTo(_, _)
SeqsUpTo(S, n) ==
    IF n = 0 THEN {<<>>}
    ELSE LET shorter == SeqsUpTo(S, n - 1)
         IN shorter \cup {Append(q, e) : q \in shorter, e \in S}

\* What a data source can answer: up to MaxRows (from, to) rows.
RowSeqs == SeqsUpTo(Keys \X Values, MaxRows)

ScalarIds == {PyStr(<<"a">>), PyStr(<<"x">>), PyStr(<<"q">>),
              URIRef(<<"n","/","a">>)}
BatchElems == {PyStr(<<"a">>), URIRef(<<"n","/","a">>)}
Collections ==
    {PyColl("list", q) : q \in SeqsUpTo(BatchElems, MaxBatch)}
    \cup {PyColl("set", <<>>),
          PyColl("set", <<PyStr(<<"a">>), URIRef(<<"n","/","a">>)>>),
          PyColl("tuple", <<URIRef(<<"n","/","a">>)>>)}
Ids == ScalarIds \cup Collections

Unloaded == [has |-> FALSE, d |-> <<>>, loads |-> 0]

\* A WikidataMapping (InchikeyToCas, NCBIToEOL, ...) whose endpoint answers.
Wikidata == [kind |-> "WikidataMapping", ok |-> TRUE, threshold |-> 0]

\* The answers of an endpoint in which rows may leave a variable unbound.
BindingSeqs ==
    SeqsUpTo((Keys \cup {NoneValue}) \X (Values \cup {NoneValue}), MaxRows)

\* threshold=0.95, the default of LogMapMapping and StringMatchingMapping.
DefaultThreshold == 950

\* The cells <<e1, e2, score>> an alignment file can hold.
LogMapScores == {800, 950, 970}
CellSeqs == SeqsUpTo(Keys \X Values \X LogMapScores, MaxRows)
LogMapThresholds == {DefaultThreshold, 970}

\* What process.extractOne can do for one pair of entities: raise TypeError,
\* or give the score of the best label, an integer from 0 to 100.
ScoreOutcomes == {<<TRUE, 0>>, <<FALSE, 90000>>, <<FALSE, 100000>>}
MatchThresholds == {900, DefaultThreshold, 999, 95000}

\* The orders in which a dict can hold some of the entities S.
Orderings(S) ==
    {q \in SeqsUpTo(S, Cardinality(S)) :
        \A i \in 1..Len(q), j \in 1..Len(q) : q[i] = q[j] => i = j}

\* for k1 in self.dict1: for k2 in self.dict2: the visits of the loops of
\* StringMatchingMapping.load over dicts holding d1 and d2, in that order,
\* when the scorer does sc[k1, k2] for the labels of k1 and k2.
NestedLoop(d1, d2, sc) ==
    [n \in 1..(Len(d1) * Len(d2)) |->
        LET k1 == d1[((n - 1) \div Len(d2)) + 1]
            k2 == d2[((n - 1) % Len(d2)) + 1]
        IN <<k1, k2, sc[<<k1, k2>>][1], sc[<<k1, k2>>][2]>>]

VisitSeqs ==
    {NestedLoop(d1, d2, sc) : d1 \in Orderings(Keys), d2 \in Orderings(Values),
                              sc \in [Keys \X Values -> ScoreOutcomes]}

\* The Alignments a program can construct: the strategy and what its data
\* source holds.
Constructions ==
    {<<[kind |-> k, ok |-> ok, threshold |-> 0], r>> :
        k \in {"EndpointMapping", "WikidataMapping"}, ok \in BOOLEAN,
        r \in BindingSeqs}
    \cup {<<[kind |-> "LogMapMapping", ok |-> ok, threshold |-> th], r>> :
        ok \in BOOLEAN, th \in LogMapThresholds, r \in CellSeqs}
    \cup {<<[kind |-> "StringMatchingMapping", ok |-> TRUE, threshold |-> th], r>> :
        th \in MatchThresholds, r \in VisitSeqs}

NotConstructed == [kind |-> "none", ok |-> TRUE, threshold |-> 0]

\* ---------------------------------------------------------------- state
VARIABLES
    strategy,         \* per Alignment instance: its class and parameters
    rows,             \* per Alignment instance: the rows its data source holds
    mappings,         \* per Alignment instance: its mappings attribute
    api_mappings,     \* API.mappings: None, or the registered schemes
    base_identifier,  \* API.base_identifier
    last,             \* the latest call: its arguments and its outcome
    walk              \* a facade's graph and its construct_subgraph call

vars == <<strategy, rows, mappings, api_mappings, base_identifier, last, walk>>

\* No facade with a graph, no construct_subgraph call.
NoWalk ==
    [pc |-> "none", graph |-> {}, use_endpoint |-> FALSE, t |-> PyNone,
     out |-> {}, tmp |-> {}, visited |-> {}, queried |-> <<>>]

NoCall ==
    [op |-> "none", a |-> "-", id |-> PyNone, reverse |-> FALSE,
     strip |-> FALSE, f |-> "-", t |-> "-", pre |-> [s \in Schemes |-> Unloaded],
     mid |-> Raise("-"), out |-> Raise("-"), calls |-> 0, consulted |-> <<>>]

\* ------------------------------------------- Alignment used on its own
InitAlign ==
    /\ strategy = [s \in Schemes |-> Wikidata]
    /\ \E r \in RowSeqs : rows = [s \in Schemes |-> IF s = "A" THEN r ELSE <<>>]
    /\ mappings = [s \in Schemes |-> Unloaded]
    /\ api_mappings = [none |-> TRUE, keys |-> {}]
    /\ base_identifier = "hub"
    /\ last = NoCall
    /\ walk = NoWalk

\* a.convert(id_, reverse, strip), id_ a single identifier or a collection.
Convert(a, id_, reverse, strip) ==
    LET r == convert(mappings[a], strategy[a], rows[a], id_, reverse, strip)
    IN /\ last.op = "none"
       /\ strategy[a].kind # "none"
       /\ mappings[a].loads < MaxLoads
       /\ mappings' = [mappings EXCEPT ![a] = r.m]
       /\ last' = [NoCall EXCEPT !.op = "convert", !.a = a, !.id = id_,
                                 !.reverse = reverse, !.strip = strip,
                                 !.pre = mappings, !.out = r.out]
       /\ UNCHANGED <<strategy, rows, api_mappings, base_identifier, walk>>

\* a.convert(id_): reverse and strip are left to their defaults.
ConvertDefault(a, id_) ==
    LET r == convert(mappings[a], strategy[a], rows[a], id_,
                     ConvertReverseDefault, FALSE)
    IN /\ last.op = "none"
       /\ strategy[a].kind # "none"
       /\ mappings[a].loads < MaxLoads
       /\ mappings' = [mappings EXCEPT ![a] = r.m]
       /\ last' = [NoCall EXCEPT !.op = "convert_default", !.a = a,
                                 !.id = id_, !.reverse = ConvertReverseDefault,
                                 !.pre = mappings, !.out = r.out]
       /\ UNCHANGED <<strategy, rows, api_mappings, base_identifier, walk>>

\* a.convert(a.convert(k, reverse=False), reverse=True); the outer call runs
\* only if the inner one returned.
ConvertRoundTrip(a, k) ==
    LET r1 == convert(mappings[a], strategy[a], rows[a], k, FALSE, FALSE)
        r2 == IF r1.out.exc = "none"
              THEN convert(r1.m, strategy[a], rows[a], r1.out.val, TRUE, FALSE)
              ELSE r1
    IN /\ last.op = "none"
       /\ mappings' = [mappings EXCEPT ![a] = r2.m]
       /\ last' = [NoCall EXCEPT !.op = "roundtrip", !.a = a, !.id = k,
                                 !.pre = mappings, !.mid = r1.out,
                                 !.out = r2.out]
       /\ UNCHANGED <<strategy, rows, api_mappings, base_identifier, walk>>

\* The caller drops the result of its latest call before making the next.
Forget ==
    /\ last.op # "none"
    /\ last' = NoCall
    /\ UNCHANGED <<strategy, rows, mappings, api_mappings, base_identifier, walk>>

NextAlign ==
    \/ \E id_ \in Ids, reverse \in BOOLEAN, strip \in BOOLEAN :
          Convert("A", id_, reverse, strip)
    \/ \E id_ \in ScalarIds : ConvertDefault("A", id_)
    \/ \E k \in ScalarIds : ConvertRoundTrip("A", k)
    \/ Forget

SpecAlign == InitAlign /\ [][NextAlign]_vars

\* ------------------------------------- convert on namespaced identifiers
StripAlphabet == {"/", "#", "C", "I", "D", "a"}
StripStrings == SeqsUpTo(StripAlphabet, MaxStripLen)

InitStrip ==
    /\ strategy = [s \in Schemes |-> Wikidata]
    /\ rows = [s \in Schemes |->
                 IF s = "A" THEN << <<(<<"a">>), (<<"x">>)>> >> ELSE <<>>]
    /\ mappings = [s \in Schemes |-> Unloaded]
    /\ api_mappings = [none |-> TRUE, keys |-> {}]
    /\ base_identifier = "hub"
    /\ last = NoCall
    /\ walk = NoWalk

NextStrip ==
    \/ /\ last.op = "none"
       /\ \E s \in StripStrings, reverse \in BOOLEAN, strip \in BOOLEAN :
             Convert("A", PyStr(s), reverse, strip)
    \/ Forget

SpecStrip == InitStrip /\ [][NextStrip]_vars

\* ----------------------------- string matching over graphs and over dicts
Labels == {<<"l">>}
Graphs(E) == SeqsUpTo(E \X Labels \X BOOLEAN, MaxRows)
Scorers == {"raises", "scores"}
GraphThresholds == {DefaultThreshold, 95000}

\* A = StringGraphMapping(g1, g2, th) and
\* B = StringMatchingMapping(graph_to_dict(g1), graph_to_dict(g2), th)
InitGraph ==
    /\ \E th \in GraphThresholds :
          strategy = [s \in Schemes |->
             IF s = "A"
             THEN [kind |-> "StringGraphMapping", ok |-> TRUE, threshold |-> th]
             ELSE IF s = "B"
             THEN [kind |-> "StringMatchingMapping", ok |-> TRUE, threshold |-> th]
             ELSE NotConstructed]
    /\ \E g1 \in Graphs(Keys), g2 \in Graphs(Values), sc \in Scorers :
          rows = [s \in Schemes |->
             IF s = "A" THEN [g1 |-> g1, g2 |-> g2, scorer |-> sc]
             ELSE IF s = "B"
             THEN DictVisits(graph_to_dict(g1), graph_to_dict(g2), sc)
             ELSE <<>>]
    /\ mappings = [s \in Schemes |-> Unloaded]
    /\ api_mappings = [none |-> TRUE, keys |-> {}]
    /\ base_identifier = "hub"
    /\ last = NoCall
    /\ walk = NoWalk

NextGraph ==
    \/ /\ last.op = "none"
       /\ \E a \in {"A", "B"}, reverse \in BOOLEAN :
             Convert(a, PyStr(<<"a">>), reverse, FALSE)
    \/ Forget

SpecGraph == InitGraph /\ [][NextGraph]_vars

\* ----------------------------------- an Alignment from its construction
\* Mutant: the constructor loads the table.
__init__eager(st, source) == load(Unloaded, st, source).m

\* The constructors of Alignment and of its subclasses store their
\* parameters; the instance has no mappings attribute.
__init__(st, source) == Unloaded

InitLoad ==
    /\ strategy = [s \in Schemes |-> NotConstructed]
    /\ rows = [s \in Schemes |-> <<>>]
    /\ mappings = [s \in Schemes |-> Unloaded]
    /\ api_mappings = [none |-> TRUE, keys |-> {}]
    /\ base_identifier = "hub"
    /\ last = NoCall
    /\ walk = NoWalk

\* a = EndpointMapping(endpoint), WikidataMapping(query),
\* LogMapMapping(filename, threshold) or
\* StringMatchingMapping(dict1, dict2, threshold)
Construct(a, st, r) ==
    /\ strategy[a].kind = "none"
    /\ strategy' = [strategy EXCEPT ![a] = st]
    /\ rows' = [rows EXCEPT ![a] = r]
    /\ mappings' = [mappings EXCEPT ![a] = __init__(st, r)]
    /\ UNCHANGED <<api_mappings, base_identifier, last, walk>>

NextLoad ==
    \/ /\ strategy["A"].kind = "none"
       /\ \E c \in Constructions : Construct("A", c[1], c[2])
    \/ \E id_ \in ScalarIds, reverse \in BOOLEAN, strip \in BOOLEAN :
          Convert("A", id_, reverse, strip)
    \/ Forget

SpecLoad == InitLoad /\ [][NextLoad]_vars

\* ------------------------------------------------------ tera.DataAccess
\* ---------------------------------------------- API.construct_subgraph
Nodes == {<<"m">>, <<"n">>, <<"o">>}
Triples == Nodes \X {<<"p">>} \X Nodes
GraphsUpTo(n) == {g \in SUBSET Triples : Cardinality(g) <= n}

\* A value of a query result: query_endpoint gives the 'value' strings of the
\* JSON answer, query_graph the rdflib terms of the graph.  An rdflib term
\* equals only a term of its own type, so URIRef(s) is not the str s.
ResultTerm(use_endpoint, s) == IF use_endpoint THEN PyStr(s) ELSE URIRef(s)

\* self.query(q, ['s','p','o']) for the query of construct_subgraph about
\* curr: the triples of the graph whose subject is <str(curr)>.
query_spo(graph, use_endpoint, curr) ==
    {<<ResultTerm(use_endpoint, tr[1]), ResultTerm(use_endpoint, tr[2]),
       ResultTerm(use_endpoint, tr[3])>> : tr \in {x \in graph : x[1] = str(curr)}}

\* tmp after one pass of the loop: curr popped, the objects of res added,
\* the visited nodes (curr among them) taken out.
NextTmp(tmp, curr, res, visited) ==
    ((tmp \ {curr}) \cup {tr[3] : tr \in res}) \ visited

InitWalk ==
    /\ strategy = [s \in Schemes |-> NotConstructed]
    /\ rows = [s \in Schemes |-> <<>>]
    /\ mappings = [s \in Schemes |-> Unloaded]
    /\ api_mappings = [none |-> TRUE, keys |-> {}]
    /\ base_identifier = "hub"
    /\ last = NoCall
    /\ \E g \in GraphsUpTo(MaxEdges), e \in BOOLEAN :
          walk = [NoWalk EXCEPT !.pc = "idle", !.graph = g, !.use_endpoint = e]

\* api.construct_subgraph(t): the statements before the loop.
ConstructSubgraph(t) ==
    /\ walk.pc = "idle"
    /\ walk' = [walk EXCEPT !.pc = "loop", !.t = t, !.out = {}, !.tmp = {t},
                            !.visited = {}, !.queried = <<>>]
    /\ UNCHANGED <<strategy, rows, mappings, api_mappings, base_identifier, last>>

\* One pass of `while tmp:`; tmp.pop() takes any element of the set.
\* queried lists the texts queried, in order.
WalkStep ==
    /\ walk.pc = "loop"
    /\ walk.tmp # {}
    /\ \E curr \in walk.tmp :
          LET res == query_spo(walk.graph, walk.use_endpoint, curr)
              visited == walk.visited \cup {curr}
          IN walk' = [walk EXCEPT !.visited = visited,
                                  !.out = @ \cup res,
                                  !.tmp = NextTmp(@, curr, res, visited),
                                  !.queried = Append(@, str(curr))]
    /\ UNCHANGED <<strategy, rows, mappings, api_mappings, base_identifier, last>>

\* return out
WalkReturn ==
    /\ walk.pc = "loop"
    /\ walk.tmp = {}
    /\ walk' = [walk EXCEPT !.pc = "done"]
    /\ UNCHANGED <<strategy, rows, mappings, api_mappings, base_identifier, last>>

NextWalk ==
    \/ \E n \in Nodes : ConstructSubgraph(PyStr(n)) \/ ConstructSubgraph(URIRef(n))
    \/ WalkStep
    \/ WalkReturn

SpecWalk == InitWalk /\ [][NextWalk]_vars

\* The interpreter keeps running the loop and the return.
SpecWalkFair == SpecWalk /\ WF_vars(WalkStep) /\ WF_vars(WalkReturn)

\* API.__init__ assigns self.mappings whatever it is given (None by
\* default), so the hasattr test of convert_id finds the attribute.
HasMappingsAttr == TRUE

\* Mutant: the registry is looked at before the identity shortcut.
IdentityShortcutAfterRegistry(f, t) == f = t /\ ~api_mappings.none

\* convert_id: if f == t: return id_
IdentityShortcut(f, t) == f = t

\* Mutant: an unsupported conversion is answered with the sentinel.
UnsupportedSwallowed(f, t, keys) == Return(PyStr(NoMapping))

\* convert_id: the raise that ends it; the error carries the registry's keys.
Unsupported(f, t, keys) == RaiseWith("NotImplementedError", keys)

\* Mutant: the hub is a source only if it is a key of the registry.
HubToSpokeNever(f, t) == FALSE

\* Mutant: any source is routed through the target's Alignment.
HubToSpokeAnySource(f, t) == t \in api_mappings.keys

\* convert_id: if f == self.base_identifier and t in self.mappings
HubToSpoke(f, t) == f = base_identifier /\ t \in api_mappings.keys

\* API.avalible_convertions()
avalible_convertions == {base_identifier} \cup api_mappings.keys

Result(out, ms, calls, consulted) ==
    [out |-> out, ms |-> ms, calls |-> calls, consulted |-> consulted]

RouterRowSeqs == {<<>>, << <<(<<"a">>), (<<"x">>)>> >>}

RECURSIVE convert_id(_, _, _, _)
RECURSIVE BatchMap(_, _, _, _, _)

\* API.convert_id, the decorated function's body, on a facade whose Alignment
\* instances hold ms: the outcome, the instances afterwards, the number of
\* nested self.convert_id calls and the Alignments consulted, in order,
\* each with the direction asked of it.  The nested self.convert_id call
\* goes through the decorator with the str that convert returned, which the
\* decorator hands to this function; at RecursionLimit frames the
\* interpreter raises RecursionError.
convert_id(ms, id_, kw, depth) ==
    IF depth > RecursionLimit THEN Result(Raise("RecursionError"), ms, 0, <<>>)
    ELSE IF IdentityShortcut(kw.f, kw.t) THEN Result(Return(id_), ms, 0, <<>>)
    ELSE IF ~HasMappingsAttr THEN Result(Raise("AttributeError"), ms, 0, <<>>)
    ELSE
    LET id1 == IF id_.ty = "URIRef" THEN PyStr(str(id_)) ELSE id_
        id2 == IF kw.strip
               THEN PyStr(strip_namespace(str(id1), Separators)) ELSE id1
    IN  \* `t in self.mappings` and `f in self.mappings` raise on None
        IF api_mappings.none THEN Result(Raise("TypeError"), ms, 0, <<>>)
        ELSE IF HubToSpoke(kw.f, kw.t)
        THEN LET r == convert(ms[kw.t], strategy[kw.t], rows[kw.t], id2,
                              ConvertReverseDefault, FALSE)
             IN Result(r.out, [ms EXCEPT ![kw.t] = r.m], 0,
                       << <<kw.t, ConvertReverseDefault>> >>)
        ELSE IF kw.f \in api_mappings.keys
        THEN LET r   == convert(ms[kw.f], strategy[kw.f], rows[kw.f], id2, TRUE,
                              FALSE)
                 ms1 == [ms EXCEPT ![kw.f] = r.m]
             IN IF r.out.exc # "none"
                THEN Result(r.out, ms1, 0, << <<kw.f, TRUE>> >>)
                ELSE LET n == convert_id(ms1, r.out.val,
                                  [f |-> base_identifier, t |-> kw.t,
                                   strip |-> FALSE], depth + 1)
                     IN Result(n.out, n.ms, 1 + n.calls,
                               << <<kw.f, TRUE>> >> \o n.consulted)
        ELSE Result(Unsupported(kw.f, kw.t, api_mappings.keys), ms, 0, <<>>)

\* One element of map(f, x) consumed by zip and dict: acc.out.val holds the
\* dict built so far, r is what f gave for element k; an exception in one
\* element leaves the whole call.
BatchStep(acc, k, r) ==
    Result(IF r.out.exc # "none" THEN r.out
           ELSE Return(PyDict(acc.out.val.items,
                              Put(acc.out.val.vals, k, r.out.val))),
           r.ms, acc.calls + r.calls, acc.consulted \o r.consulted)

BatchMap(items, i, kw, depth, acc) ==
    IF i > Len(items) \/ acc.out.exc # "none" THEN acc
    ELSE BatchMap(items, i + 1, kw, depth,
                  BatchStep(acc, items[i],
                            convert_id(acc.ms, items[i], kw, depth)))

\* dict(...) as the caller sees it: the keys and the values, in key order.
DictResult(acc) ==
    IF acc.out.exc # "none" THEN acc
    ELSE [acc EXCEPT !.out.val =
            PyDict([j \in 1..Len(acc.out.val.vals) |-> acc.out.val.vals[j][1]],
                   [j \in 1..Len(acc.out.val.vals) |-> acc.out.val.vals[j][2]])]

\* do_recursively_in_class: dict(zip(x, map(f, x))) for a list, set or
\* tuple, the function itself for anything else.
call_recursively(ms, x, kw, depth) ==
    IF x.ty \in CollectionTypes
    THEN DictResult(BatchMap(x.items, 1, kw, depth,
                             Result(Return(PyDict(<<>>, <<>>)), ms, 0, <<>>)))
    ELSE convert_id(ms, x, kw, depth)

\* ------------------------------------------------------------ the facade
Init ==
    /\ strategy = [s \in Schemes |-> Wikidata]
    /\ rows \in [Schemes -> RouterRowSeqs]
    /\ mappings = [s \in Schemes |-> Unloaded]
    /\ api_mappings \in {[none |-> TRUE, keys |-> {}]}
                        \cup {[none |-> FALSE, keys |-> K] : K \in SUBSET Schemes}
    /\ base_identifier \in Schemes
    /\ last = NoCall
    /\ walk = NoWalk

\* api.convert_id(id_, f=f, t=t, strip=strip)
ConvertId(id_, f, t, strip) ==
    LET r == call_recursively(mappings, id_,
                              [f |-> f, t |-> t, strip |-> strip], 0)
    IN /\ last.op = "none"
       /\ mappings' = r.ms
       /\ last' = [NoCall EXCEPT !.op = "convert_id", !.id = id_, !.f = f,
                                 !.t = t, !.strip = strip, !.pre = mappings,
                                 !.out = r.out, !.calls = r.calls,
                                 !.consulted = r.consulted]
       /\ UNCHANGED <<strategy, rows, api_mappings, base_identifier, walk>>

\* The outer call of a round trip: convert_id(inner result, f=t, t=hub); it
\* runs only if the inner call returned.
SecondHop(r1, t) ==
    IF r1.out.exc = "none"
    THEN call_recursively(r1.ms, r1.out.val,
            [f |-> t, t |-> base_identifier, strip |-> FALSE], 0)
    ELSE r1

RoundTripOutcome(r1, r2) == [ms |-> r2.ms, mid |-> r1.out, out |-> r2.out]
RoundTrip(r1, t) == RoundTripOutcome(r1, SecondHop(r1, t))

\* api.convert_id(api.convert_id(k, f=hub, t=t), f=t, t=hub)
ConvertIdRoundTrip(k, t) ==
    LET r == RoundTrip(call_recursively(mappings, k,
                 [f |-> base_identifier, t |-> t, strip |-> FALSE], 0), t)
    IN /\ last.op = "none"
       /\ mappings' = r.ms
       /\ last' = [NoCall EXCEPT !.op = "id_roundtrip", !.id = k,
                                 !.f = base_identifier, !.t = t,
                                 !.pre = mappings, !.mid = r.mid,
                                 !.out = r.out]
       /\ UNCHANGED <<strategy, rows, api_mappings, base_identifier, walk>>

Next ==
    \/ \E id_ \in Ids, f \in Schemes, t \in Schemes, strip \in BOOLEAN :
          ConvertId(id_, f, t, strip)
    \/ \E k \in ScalarIds, t \in Schemes : ConvertIdRoundTrip(k, t)
    \/ Forget

Spec == Init /\ [][Next]_vars

\* ============================================================== claims
\* What the specification expects of a loaded table M = the dict load built.
Table(a) == DictOfRows(rows[a], <<>>)
TableValues(M) == {M[j][2] : j \in 1..Len(M)}
ExpectedForward(M, k) == IF HasKey(M, k) THEN Get(M, k) ELSE NoMapping
ExpectedReverse(M, v) ==
    LET R == ReverseFill(M, <<>>) IN IF HasKey(R, v) THEN Get(R, v) ELSE NoMapping

IsScalar(v) == v.ty \in {"str", "URIRef"}
\* The text a call looks up: the identifier's str, stripped if asked.
LookupKey(c) ==
    IF c.strip THEN strip_namespace(str(c.id), Separators) ELSE str(c.id)
ElementsOf(v) == {v.items[j] : j \in 1..Len(v.items)}
Registered(sch) == ~api_mappings.none /\ sch \in api_mappings.keys

\* C1: for an identifier absent from the table (forward: not a key, reverse:
\* not a target), convert returns 'no mapping' and does not raise, on the
\* first lookup of the instance and on every later one.
C1_SentinelOnMiss ==
    (/\ last.op = "convert"
     /\ IsScalar(last.id)
     /\ IF last.reverse
        THEN LookupKey(last) \notin TableValues(Table(last.a))
        ELSE ~HasKey(Table(last.a), LookupKey(last)))
    => last.out = Return(PyStr(NoMapping))

\* C2: with a registry and f # t, convert_id on a single identifier makes at
\* most one nested call and ends by returning a value or by raising the
\* unsupported-conversion error.
C2_OneHopThenValueOrUnsupported ==
    (/\ last.op = "convert_id"
     /\ IsScalar(last.id)
     /\ last.f # last.t
     /\ ~api_mappings.none)
    => /\ last.calls <= 1
       /\ last.out.exc \in {"none", "NotImplementedError"}

\* C3: from the hub to a registered scheme t, convert_id returns the forward
\* lookup of the identifier in t's table, 'no mapping' on a miss.
C3_HubToSpokeIsForward ==
    (/\ last.op = "convert_id"
     /\ IsScalar(last.id)
     /\ last.f # last.t
     /\ last.f = base_identifier
     /\ Registered(last.t))
    => last.out = Return(PyStr(ExpectedForward(Table(last.t), LookupKey(last))))

\* C4: from a registered non-hub spoke f to another registered spoke t,
\* convert_id is the forward lookup in t's table of the reverse lookup in
\* f's table, and consults exactly those two Alignments, once each.
C4_SpokeToSpokeViaHub ==
    (/\ last.op = "convert_id"
     /\ IsScalar(last.id)
     /\ last.f # last.t
     /\ last.f # base_identifier /\ last.t # base_identifier
     /\ Registered(last.f) /\ Registered(last.t))
    => /\ last.out =
            Return(PyStr(ExpectedForward(Table(last.t),
                      ExpectedReverse(Table(last.f), LookupKey(last)))))
       /\ last.consulted = << <<last.f, TRUE>>, <<last.t, FALSE>> >>

\* C5: convert_id with f = t returns the identifier as given (not stripped,
\* not coerced), whatever the registry, and loads no Alignment.
C5_IdentityUnchanged ==
    (/\ last.op = "convert_id"
     /\ IsScalar(last.id)
     /\ last.f = last.t)
    => /\ last.out = Return(last.id)
       /\ mappings = last.pre
       /\ last.consulted = <<>>

C5_Witness ==
    /\ last.op = "convert_id"
    /\ last.f = last.t
    /\ api_mappings.none
    /\ last.strip
    /\ last.id = URIRef(<<"n","/","a">>)
    /\ last.out = Return(URIRef(<<"n","/","a">>))

\* C6: on a loaded Alignment, convert(convert(k, reverse=False),
\* reverse=True) = k for every key k whose target no other key shares.
C6_RoundTrip ==
    (/\ last.op = "roundtrip"
     /\ last.pre[last.a].has
     /\ last.id.ty = "str"
     /\ HasKey(Table(last.a), last.id.s)
     /\ \A j \in 1..Len(Table(last.a)) :
           Table(last.a)[j][2] = Get(Table(last.a), last.id.s)
           => Table(last.a)[j][1] = last.id.s)
    => last.out = Return(last.id)

\* C7: with f and t both registered and loaded spokes, an f-identifier that
\* no hub identifier maps to converts to 'no mapping', without raising.
C7_NoHubMappingGivesSentinel ==
    (/\ last.op = "convert_id"
     /\ IsScalar(last.id)
     /\ last.f # last.t
     /\ last.f # base_identifier /\ last.t # base_identifier
     /\ Registered(last.f) /\ Registered(last.t)
     /\ last.pre[last.f].has /\ last.pre[last.t].has
     /\ LookupKey(last) \notin TableValues(Table(last.f)))
    => last.out = Return(PyStr(NoMapping))

\* C8: convert given a list, set or tuple returns a mapping keyed by the
\* collection's elements, each mapped to what convert returns for it alone.
C8_ConvertBatch ==
    (/\ last.op = "convert"
     /\ last.id.ty \in CollectionTypes)
    => /\ last.out.exc = "none"
       /\ last.out.val.ty = "dict"
       /\ {last.out.val.items[j] : j \in 1..Len(last.out.val.items)}
             = ElementsOf(last.id)
       /\ \A j \in 1..Len(last.out.val.items) :
             convert(mappings[last.a], strategy[last.a], rows[last.a],
                     last.out.val.items[j], last.reverse, last.strip).out
                = Return(last.out.val.vals[j])

\* C9: where the conversion from f to t is routed (identity, hub to spoke,
\* spoke to hub or spoke), convert_id given a list, set or tuple returns a
\* mapping keyed by exactly the input elements and no element aborts it.
RouteExists(f, t) ==
    \/ f = t
    \/ /\ ~api_mappings.none
       /\ \/ f = base_identifier /\ t \in api_mappings.keys
          \/ f \in api_mappings.keys /\ (t = base_identifier \/ t \in api_mappings.keys)

C9_BatchIsCompleteMapping ==
    (/\ last.op = "convert_id"
     /\ last.id.ty \in CollectionTypes
     /\ RouteExists(last.f, last.t))
    => /\ last.out.exc = "none"
       /\ last.out.val.ty = "dict"
       /\ {last.out.val.items[j] : j \in 1..Len(last.out.val.items)}
             = ElementsOf(last.id)

\* C10: on a facade with a registry, when f # t, f is not registered and it
\* is not the case that f is the hub and t is registered, convert_id raises
\* NotImplementedError carrying the registry's schemes; no value comes back.
C10_UnsupportedRaises ==
    (/\ last.op = "convert_id"
     /\ IsScalar(last.id) \/ last.id.items # <<>>
     /\ last.f # last.t
     /\ ~api_mappings.none
     /\ last.f \notin api_mappings.keys
     /\ ~(last.f = base_identifier /\ last.t \in api_mappings.keys))
    => last.out = RaiseWith("NotImplementedError", api_mappings.keys)

C10_Witness ==
    /\ last.op = "convert_id"
    /\ last.f = "A" /\ last.t = "B"
    /\ api_mappings = [none |-> FALSE, keys |-> {"hub", "B"}]
    /\ base_identifier = "hub"
    /\ last.id = PyStr(<<"a">>)
    /\ last.out.exc = "NotImplementedError"
    /\ last.out.info = {"hub", "B"}

\* C11: on a facade built without a registry (mappings None), convert_id
\* with f # t fails with the missing-registry error that the registry check
\* of convert_id raises (AttributeError), not with an error of a lookup or
\* membership test on the registry.
C11_MissingRegistryError ==
    (/\ last.op = "convert_id"
     /\ IsScalar(last.id)
     /\ last.f # last.t
     /\ api_mappings.none)
    => last.out.exc = "AttributeError"

\* C12: when the data source of an Alignment cannot be read during load (the
\* query fails, the alignment file is missing or does not parse), the
\* instance ends with an empty table, no exception reaches the caller of
\* convert, and that lookup and every later one return 'no mapping'.
C12_FailedLoadGivesEmptyTable ==
    (/\ last.op = "convert"
     /\ ~strategy[last.a].ok)
    => /\ last.out = Return(PyStr(NoMapping))
       /\ mappings[last.a].has
       /\ mappings[last.a].d = <<>>

\* The load of a's class gets as far as assigning self.mappings.
LoadAssigns(a) == strategy[a].kind = "LogMapMapping" => strategy[a].ok

C14_LoadAtMostOnce == \A a \in Schemes : mappings[a].loads <= 1

\* C15: once an Alignment is loaded, no call of convert changes its table:
\* after any forward or reverse lookup, hit or miss, single or batch, the
\* table has the same keys and the same values.
C15_TableImmutable ==
    [][\A a \in Schemes :
         mappings[a].has
         => (mappings'[a].has /\ mappings'[a].d = mappings[a].d)]_vars

C15_Witness ==
    /\ last.op = "convert"
    /\ last.pre[last.a].has
    /\ last.pre[last.a].d # <<>>
    /\ ~last.reverse
    /\ last.out.exc = "KeyError"
    /\ mappings[last.a].d = last.pre[last.a].d

\* C16: convert called with an identifier alone (reverse not given) looks
\* the identifier up in the forward table, as convert(id_, reverse=False)
\* does; the reverse index is used only when the caller passes reverse=True.
C16_DefaultIsForward ==
    (/\ last.op = "convert_default"
     /\ IsScalar(last.id))
    => /\ ~last.reverse
       /\ last.out = convert(last.pre[last.a], strategy[last.a], rows[last.a],
                             last.id, FALSE, FALSE).out

\* The visits of a's string matching that its threshold accepts.
AcceptedVisits(a) ==
    {j \in 1..Len(rows[a]) : ScoreOf(rows[a][j]) >= strategy[a].threshold}

\* C17: the table StringMatchingMapping.load builds has as keys exactly the
\* entities e1 with some target scoring at least the threshold, and maps
\* each to a target whose score is the highest among e1's accepted targets.
C17_BestTargetKept ==
    \A a \in Schemes :
      (strategy[a].kind = "StringMatchingMapping" /\ mappings[a].has)
      => /\ \A k1 \in Keys :
              HasKey(mappings[a].d, k1)
              <=> (\E j \in AcceptedVisits(a) : rows[a][j][1] = k1)
         /\ \A i \in 1..Len(mappings[a].d) :
              \E j \in AcceptedVisits(a) :
                 /\ rows[a][j][1] = mappings[a].d[i][1]
                 /\ rows[a][j][2] = mappings[a].d[i][2]
                 /\ \A n \in AcceptedVisits(a) :
                       rows[a][n][1] = rows[a][j][1]
                       => ScoreOf(rows[a][n]) <= ScoreOf(rows[a][j])

KeysOf(d) == {d[j][1] : j \in 1..Len(d)}
\* The pairs a's load accepts, and the table it builds, were its threshold t.
PairsAt(a, t) == KeysOf(MatchPairs(rows[a], t, <<>>))
TableAt(a, t) == DictOfPairs(MatchPairs(rows[a], t, <<>>), <<>>)

\* C18: for the same label dictionaries and the same scorer, the pairs that
\* StringMatchingMapping.load accepts at a threshold t2 are among those it
\* accepts at any t1 <= t2, so raising the threshold never adds an accepted
\* pair nor a key of the table.
C18_ThresholdMonotone ==
    \A a \in Schemes :
      (strategy[a].kind = "StringMatchingMapping" /\ mappings[a].has)
      => /\ \A t1 \in MatchThresholds, t2 \in MatchThresholds :
              t1 <= t2
              => /\ PairsAt(a, t2) \subseteq PairsAt(a, t1)
                 /\ Cardinality(PairsAt(a, t2)) <= Cardinality(PairsAt(a, t1))
         /\ \A t \in MatchThresholds :
              /\ t >= strategy[a].threshold
                   => /\ KeysOf(TableAt(a, t)) \subseteq KeysOf(mappings[a].d)
                      /\ Len(TableAt(a, t)) <= Len(mappings[a].d)
              /\ t <= strategy[a].threshold
                   => /\ KeysOf(mappings[a].d) \subseteq KeysOf(TableAt(a, t))
                      /\ Len(mappings[a].d) <= Len(TableAt(a, t))

C18_Witness ==
    /\ strategy["A"].kind = "StringMatchingMapping"
    /\ strategy["A"].threshold = 900
    /\ mappings["A"].has
    /\ Len(mappings["A"].d) = 2
    /\ Cardinality(PairsAt("A", 900)) = 4
    /\ Cardinality(PairsAt("A", 95000)) = 1
    /\ Len(TableAt("A", 95000)) = 1

\* The cells of a's alignment file whose score is at least a's threshold.
AcceptedCells(a) ==
    {j \in 1..Len(rows[a]) : rows[a][j][3] >= strategy[a].threshold}

\* C19: the table LogMapMapping.load builds has e1 as a key exactly when some
\* cell (e1, e2, score) has score >= threshold (0.95 by default, the
\* threshold itself accepted), and maps e1 to the e2 of the last such cell
\* in the order the cells are met.
C19_LogMapThreshold ==
    \A a \in Schemes :
      (strategy[a].kind = "LogMapMapping" /\ mappings[a].has)
      => /\ \A e1 \in Keys :
              HasKey(mappings[a].d, e1)
              <=> (\E j \in AcceptedCells(a) : rows[a][j][1] = e1)
         /\ \A i \in 1..Len(mappings[a].d) :
              \E j \in AcceptedCells(a) :
                 /\ rows[a][j][1] = mappings[a].d[i][1]
                 /\ rows[a][j][2] = mappings[a].d[i][2]
                 /\ \A n \in AcceptedCells(a) :
                       rows[a][n][1] = rows[a][j][1] => n <= j

C19_Witness ==
    /\ strategy["A"].kind = "LogMapMapping"
    /\ strategy["A"].threshold = DefaultThreshold
    /\ rows["A"] = << <<(<<"a">>), (<<"x">>), 970>>, <<(<<"b">>), (<<"y">>), 800>> >>
    /\ mappings["A"].has
    /\ mappings["A"].d = << <<(<<"a">>), (<<"x">>)>> >>

\* C20: string matching over one entity on each side whose labels differ
\* only in case gives the table {e1: f1} at threshold 0.9 and the empty
\* table at threshold 0.999: the score compared with the threshold is on
\* the scale of the threshold, from 0 to 1.
C20_ScoreOnThresholdScale ==
    \A a \in Schemes :
      (/\ strategy[a].kind = "StringMatchingMapping"
       /\ mappings[a].has
       /\ Len(rows[a]) = 1)
      => /\ ScoreOf(rows[a][1]) <= 1000
         /\ strategy[a].threshold = 900
              => mappings[a].d = << <<rows[a][1][1], rows[a][1][2]>> >>
         /\ strategy[a].threshold = 999 => mappings[a].d = <<>>

\* The places of s where v occurs, and what follows the last of them (s
\* itself if there is none).
Occurrences(s, v) ==
    {i \in 1..Len(s) : i + Len(v) - 1 <= Len(s) /\ SubSeq(s, i, i + Len(v) - 1) = v}
AfterLast(s, v) ==
    IF Occurrences(s, v) = {} THEN s
    ELSE LET p == CHOOSE i \in Occurrences(s, v) :
                     \A j \in Occurrences(s, v) : j <= i
         IN SubSeq(s, p + Len(v), Len(s))
Fragments(s) == {s} \cup {AfterLast(s, Separators[n]) : n \in 1..Len(Separators)}

\* C21: strip_namespace(s, ['/', '#', 'CID']) is a shortest string among s
\* and what follows the last occurrence of each separator in s; it holds no
\* separator, stripping it again gives it back, and convert with strip=True
\* looks up this stripped string.
C21_StripShortestIdempotent ==
    (/\ last.op = "convert"
     /\ last.id.ty = "str")
    => LET r == strip_namespace(last.id.s, Separators)
       IN /\ r \in Fragments(last.id.s)
          /\ \A c \in Fragments(last.id.s) : Len(r) <= Len(c)
          /\ \A n \in 1..Len(Separators) : Occurrences(r, Separators[n]) = {}
          /\ strip_namespace(r, Separators) = r
          /\ (last.strip /\ ~last.reverse /\ last.pre[last.a].has)
               => last.out = IF HasKey(mappings[last.a].d, r)
                             THEN Return(PyStr(Get(mappings[last.a].d, r)))
                             ELSE Raise("KeyError")

C21_Witness ==
    /\ last.op = "convert"
    /\ last.strip /\ ~last.reverse
    /\ last.pre[last.a].has
    /\ last.id = PyStr(<<"a", "/", "#", "a">>)
    /\ last.out = Return(PyStr(<<"x">>))

\* C22: from a registered spoke S to the hub, convert_id returns the reverse
\* lookup of the identifier in S's table (the hub identifier that maps to
\* it, or 'no mapping') and does not raise.
C22_SpokeToHubIsReverse ==
    (/\ last.op = "convert_id"
     /\ IsScalar(last.id)
     /\ last.f # base_identifier
     /\ last.t = base_identifier
     /\ Registered(last.f))
    => last.out = Return(PyStr(ExpectedReverse(Table(last.f), LookupKey(last))))

QueryKinds == {"EndpointMapping", "WikidataMapping"}

\* C23: when the request to the remote service fails, query_endpoint lets no
\* exception of it out and returns the empty result, so the Alignment that
\* loads from it holds a table with no mappings.
C23_QueryFailureIsEmpty ==
    \A a \in Schemes :
      (strategy[a].kind \in QueryKinds /\ ~strategy[a].ok)
      => /\ query_endpoint(strategy[a], rows[a]) = [exc |-> "none", val |-> <<>>]
         /\ mappings[a].loads > 0 => (mappings[a].has /\ mappings[a].d = <<>>)
         /\ (last.op = "convert" /\ last.a = a)
              => last.out.exc # "EndPointNotFound"

C23_Witness ==
    /\ strategy["A"].kind = "WikidataMapping"
    /\ ~strategy["A"].ok
    /\ rows["A"] # <<>>
    /\ last.op = "convert"
    /\ mappings["A"].loads = 1
    /\ mappings["A"].has /\ mappings["A"].d = <<>>

\* C25: query_endpoint returns one tuple per distinct row of the answer,
\* with one position per requested variable, holding the row's value where
\* the row binds the variable and the null marker only where it does not.
C25_RowsKeepTheirBindings ==
    \A a \in Schemes :
      (strategy[a].kind \in QueryKinds /\ strategy[a].ok /\ mappings[a].has)
      => LET res == query_endpoint(strategy[a], rows[a]).val
         IN /\ {res[j] : j \in 1..Len(res)}
                  = {rows[a][j] : j \in 1..Len(rows[a])}
            /\ mappings[a].d = DictOfRows(rows[a], <<>>)

\* The last key of the table M, in its iteration order, whose target is v.
LastSourceOf(M, v) ==
    M[CHOOSE j \in 1..Len(M) :
         /\ M[j][2] = v
         /\ \A n \in 1..Len(M) : M[n][2] = v => n <= j][1]

\* C24: on a loaded Alignment, the reverse lookup of a target v returns the
\* source key of v that comes last in the forward table's iteration order
\* (the one source key, when v has exactly one).
C24_ReverseLastWins ==
    (/\ last.op = "convert"
     /\ IsScalar(last.id)
     /\ last.reverse
     /\ last.pre[last.a].has
     /\ LookupKey(last) \in TableValues(mappings[last.a].d))
    => last.out = Return(PyStr(LastSourceOf(mappings[last.a].d, LookupKey(last))))

\* C26: StringGraphMapping(g1, g2, th) loads the table that
\* StringMatchingMapping(graph_to_dict(g1), graph_to_dict(g2), th) loads, and
\* graph_to_dict maps every subject of a graph, and nothing else, to exactly
\* the objects of its triples that are literals.
SubjectsOf(graph) == {graph[j][1] : j \in 1..Len(graph)}
LiteralSetOf(graph, e) ==
    {graph[j][2] : j \in {n \in 1..Len(graph) : graph[n][1] = e /\ graph[n][3]}}
DictIsLiterals(graph) ==
    LET d == graph_to_dict(graph)
    IN /\ KeysOf(d) = SubjectsOf(graph)
       /\ \A e \in SubjectsOf(graph) :
             {Get(d, e)[j] : j \in 1..Len(Get(d, e))} = LiteralSetOf(graph, e)

RECURSIVE ReachFrom(_, _)
ReachFrom(graph, S) ==
    LET more == S \cup {tr[3] : tr \in {x \in graph : x[1] \in S}}
    IN IF more = S THEN S ELSE ReachFrom(graph, more)

TimesQueried(n) ==
    Cardinality({j \in 1..Len(walk.queried) : walk.queried[j] = n})

\* C27: construct_subgraph queries each node at most once and, when it
\* returns, returns exactly the triples whose subject is t or is reachable
\* from t along subject-to-object edges, on graphs with cycles too.
C27_QueriedOnceExactTriples ==
    /\ \A n \in Nodes : TimesQueried(n) <= 1
    /\ walk.pc = "done"
         => {<<tr[1].s, tr[2].s, tr[3].s>> : tr \in walk.out}
              = {x \in walk.graph : x[1] \in ReachFrom(walk.graph, {str(walk.t)})}

\* Termination: every construct_subgraph call returns, cycles or not.
WalkTerminates == (walk.pc = "loop") ~> (walk.pc = "done")

\* The result alone: exactly the triples of the nodes reachable from t.
WalkReturnsReachable ==
    walk.pc = "done"
    => {<<tr[1].s, tr[2].s, tr[3].s>> : tr \in walk.out}
         = {x \in walk.graph : x[1] \in ReachFrom(walk.graph, {str(walk.t)})}

C29_RouterRoundTrip ==
    (/\ last.op = "id_roundtrip"
     /\ Registered(last.t)
     /\ last.t # base_identifier
     /\ HasKey(Table(last.t), str(last.id))
     /\ \A j \in 1..Len(Table(last.t)) :
           Table(last.t)[j][2] = Get(Table(last.t), str(last.id))
           => Table(last.t)[j][1] = str(last.id))
    => /\ last.mid = Return(PyStr(Get(Table(last.t), str(last.id))))
       /\ last.out = Return(PyStr(str(last.id)))

\* The Alignments on the route of convert_id(f=f, t=t): none for f = t,
\* T's from the hub to T, S's and T's from spoke S, none otherwise.
RouteOf(f, t) ==
    IF f = t \/ api_mappings.none THEN {}
    ELSE IF f = base_identifier /\ t \in api_mappings.keys THEN {t}
    ELSE IF f \in api_mappings.keys THEN {f} \cup ({t} \cap api_mappings.keys)
    ELSE {}

\* C30: a convert_id call leaves every Alignment off its route as it was
\* (an unloaded one stays unloaded); from the hub to T it runs the load of
\* T's Alignment if T's was unloaded, and a call from an unregistered source
\* scheme loads nothing.
C30_LoadsOnlyItsRoute ==
    (last.op = "convert_id")
    => /\ \A x \in Schemes :
             x \notin RouteOf(last.f, last.t) => mappings[x] = last.pre[x]
       /\ (/\ Registered(last.t)
           /\ last.f = base_identifier
           /\ last.f # last.t
           /\ IsScalar(last.id)
           /\ ~last.pre[last.t].has)
            => /\ mappings[last.t].loads = 1
               /\ mappings[last.t].has
       /\ (/\ ~api_mappings.none
           /\ last.f \notin avalible_convertions)
            => mappings = last.pre

C30_Witness ==
    /\ last.op = "convert_id"
    /\ api_mappings.keys = {"A", "B"}
    /\ base_identifier = "hub"
    /\ last.f = "hub"
    /\ last.t = "A"
    /\ IsScalar(last.id)
    /\ ~last.pre["A"].has
    /\ mappings["A"].has
    /\ mappings["A"].loads = 1
    /\ ~last.pre["B"].has
    /\ ~mappings["B"].has

====
